---- MODULE Spec2Model ----
(***************************************************************************)
(* The frame-presentation loop of src/src/main.rs: the closure handed to   *)
(* event_loop.run, with the swapchain, the GPU queue and the window as     *)
(* collaborators whose results are inputs.                                 *)
(*                                                                         *)
(* A completion token is a FenceSignalFuture returned by a successful      *)
(* then_signal_fence_and_flush; the fence table `fences` holds at most one  *)
(* per slot.  The handler of MainEventsCleared blocks in                   *)
(* image_fence.wait(None), so it is modelled in two steps around that      *)
(* wait: MainEventsCleared (rebuild, acquire) and SubmitAndPresent (the     *)
(* wait has returned; submit, present, bookkeeping).  No other event is    *)
(* delivered while the handler is blocked; only the GPU makes progress.    *)
(***************************************************************************)
EXTENDS Integers, Sequences, FiniteSets, TLC

\* ---------------------------------------------------------------- bounds
\* images.len() of the swapchain created at startup
FramesInFlight == 2
\* largest number of images a recreated swapchain returns
MaxImages == 3
\* completion tokens issued in one run
MaxTokens == 2
\* successful swapchain recreations in one run
MaxGen == 1

\* Option::None in the fence table
None == 0

Slots == 0 .. (FramesInFlight - 1)
\* recreate keeps min_image_count (main.rs:214), which the startup swapchain met
\* with FramesInFlight images: a recreated swapchain has at least as many
ImageCounts == FramesInFlight .. MaxImages
\* window.inner_size(): two sizes tell a changed viewport from an unchanged one
Sizes == {"startup", "resized"}
RecreateResults == {"Ok", "ImageExtentNotSupported", "Other"}
AcquireResults == {"Ok", "OutOfDate", "Other"}
FlushResults == {"Ok", "OutOfDate", "Other"}

VARIABLES
  window_resized,      \* main.rs:191
  recreate_swapchain,  \* main.rs:192
  fences,              \* main.rs:195, slot -> token or None
  previous_fence_i,    \* main.rs:196
  swapchain,           \* [gen, images]: the current swapchain and its image count
  command_buffers,     \* [gen, len]: generation of the framebuffers they target
  viewport,            \* viewport.dimensions
  window_size,         \* window.inner_size()
  control_flow,        \* "Poll" or "Exit"
  pc,                  \* "Idle", "WaitingPriorWork", "Terminated"
  exit_cause,          \* "none", "stop", "collaborator", "index"
  image_i,             \* local of the handler, live while it waits
  issued,              \* token t -> [slot, dep]: the submissions that returned a token
  signaled,            \* tokens whose GPU work has finished
  stop_seen,           \* history: a CloseRequested event was delivered
  resize_observed,     \* history: a Resized event not yet followed by a successful rebuild
  tick                 \* history: what the current / last handler run did

vars == <<window_resized, recreate_swapchain, fences, previous_fence_i, swapchain,
          command_buffers, viewport, window_size, control_flow, pc, exit_cause,
          image_i, issued, signaled, stop_seen, resize_observed, tick>>

NoTick ==
  [resized0 |-> FALSE, stale0 |-> FALSE, observed0 |-> FALSE,
   ops |-> <<>>, rebuild |-> "none", acquire |-> "none", slot |-> None,
   suboptimal |-> FALSE, entry |-> None, waited |-> None, dep |-> None,
   flush |-> "none", end |-> "none"]

Init ==
  /\ window_resized = FALSE
  /\ recreate_swapchain = FALSE
  /\ fences = [s \in Slots |-> None]
  /\ previous_fence_i = 0
  /\ swapchain = [gen |-> 0, images |-> FramesInFlight]
  /\ command_buffers = [gen |-> 0, len |-> FramesInFlight]
  /\ window_size = "startup"
  /\ viewport = window_size
  /\ control_flow = "Poll"
  /\ pc = "Idle"
  /\ exit_cause = "none"
  /\ image_i = 0
  /\ issued = <<>>
  /\ signaled = {}
  /\ stop_seen = FALSE
  /\ resize_observed = FALSE
  /\ tick = NoTick

\* ------------------------------------------------------------ event loop
\* event_loop.run delivers window events and MainEventsCleared while the
\* loop runs and the handler is not executing
Running == pc = "Idle" /\ control_flow = "Poll"

ControlFlowOnClose_Ignored == "Poll"
\* main.rs:201
ControlFlowOnClose == "Exit"

CloseRequested ==
  /\ Running
  /\ control_flow' = ControlFlowOnClose
  /\ stop_seen' = TRUE
  /\ UNCHANGED <<window_resized, recreate_swapchain, fences, previous_fence_i,
                 swapchain, command_buffers, viewport, window_size, pc, exit_cause,
                 image_i, issued, signaled, resize_observed, tick>>

Resized(s) ==
  /\ Running
  /\ window_resized' = TRUE
  /\ window_size' = s
  /\ resize_observed' = TRUE
  /\ UNCHANGED <<recreate_swapchain, fences, previous_fence_i, swapchain,
                 command_buffers, viewport, control_flow, pc, exit_cause, image_i,
                 issued, signaled, stop_seen, tick>>

\* ControlFlow::Exit ends the loop; the LoopDestroyed event falls in `_ => {}`
LoopDestroyed ==
  /\ pc = "Idle"
  /\ control_flow = "Exit"
  /\ pc' = "Terminated"
  /\ exit_cause' = "stop"
  /\ UNCHANGED <<window_resized, recreate_swapchain, fences, previous_fence_i,
                 swapchain, command_buffers, viewport, window_size, control_flow,
                 image_i, issued, signaled, stop_seen, resize_observed, tick>>

\* ------------------------------------------------------------------- GPU
\* The work behind token t finishes; it was ordered after its dependency
GpuSignal(t) ==
  /\ t \in (1 .. Len(issued)) \ signaled
  /\ issued[t].dep = None \/ issued[t].dep \in signaled
  /\ signaled' = signaled \cup {t}
  /\ UNCHANGED <<window_resized, recreate_swapchain, fences, previous_fence_i,
                 swapchain, command_buffers, viewport, window_size, control_flow, pc,
                 exit_cause, image_i, issued, stop_seen, resize_observed, tick>>

\* ------------------------------------------------- MainEventsCleared handler
NeedsRebuild_Always == TRUE
\* main.rs:207
NeedsRebuild == window_resized \/ recreate_swapchain

\* main.rs:212-215, the swapchain returned by a successful recreate with n images
Recreate(n) == [gen |-> swapchain.gen + 1, images |-> n]

ResizedAfterRecreate_ClearedFirst(r) == FALSE
\* main.rs:219-226, window_resized after a recreate attempt with result r
ResizedAfterRecreate(r) == IF r = "Ok" THEN FALSE ELSE window_resized

\* main.rs:223-238, the command buffers after a successful recreate into sc
CommandBuffersAfterRecreate(sc) ==
  IF window_resized THEN [gen |-> sc.gen, len |-> sc.images] ELSE command_buffers

FencesAfterRecreate_Reset == [sl \in Slots |-> None]
\* main.rs:207-239, the rebuild branch does not write the fence table
FencesAfterRecreate == fences

\* main.rs:225-228
ViewportAfterRecreate == IF window_resized THEN window_size ELSE viewport

StaleAfterAcquire_OutOfDateDropped(a, s, stale) == IF a = "Ok" /\ s THEN TRUE ELSE stale
\* main.rs:244-253, recreate_swapchain after acquire result a with suboptimal s
StaleAfterAcquire(a, s, stale) ==
  IF a = "OutOfDate" THEN TRUE ELSE IF a = "Ok" /\ s THEN TRUE ELSE stale

ProceedsAfterAcquire_SuboptimalSkipped(a, s) == a = "Ok" /\ ~s
\* main.rs:241-249, the handler goes on to the fence wait
ProceedsAfterAcquire(a, s) == a = "Ok"

RecreateReturns_AnyError(r) == r # "Ok"
\* main.rs:219, the recreate error on which the handler just returns
RecreateReturns(r) == r = "ImageExtentNotSupported"

\* The state of the handler when it reaches the fence wait at main.rs:256,
\* or when it has returned or panicked before that.
\*   r, n: result and image count of swapchain.recreate
\*   a, i, s: result, image index and suboptimal flag of acquire_next_image
HandlerStart(r, n, a, i, s) ==
  LET rebuild == NeedsRebuild
      t0 == [NoTick EXCEPT !.resized0 = window_resized,
                           !.stale0 = recreate_swapchain,
                           !.observed0 = resize_observed,
                           !.ops = IF rebuild THEN <<"rebuild">> ELSE <<>>,
                           !.rebuild = IF rebuild THEN r ELSE "none"]
      st == [window_resized |-> window_resized,
             recreate_swapchain |-> IF rebuild THEN FALSE ELSE recreate_swapchain,
             swapchain |-> swapchain, command_buffers |-> command_buffers,
             viewport |-> viewport, resize_observed |-> resize_observed,
             fences |-> fences, pc |-> "Idle", exit_cause |-> "none", image_i |-> 0, tick |-> t0]
  IN
  IF rebuild /\ RecreateReturns(r) THEN
    \* main.rs:219
    [st EXCEPT !.window_resized = ResizedAfterRecreate(r),
               !.tick = [t0 EXCEPT !.end = "returned"]]
  ELSE IF rebuild /\ r = "Other" THEN
    \* main.rs:220
    [st EXCEPT !.pc = "Terminated", !.exit_cause = "collaborator",
               !.tick = [t0 EXCEPT !.end = "panicked"]]
  ELSE
    LET sc == IF rebuild THEN Recreate(n) ELSE swapchain
        s1 == IF rebuild
              THEN [st EXCEPT !.swapchain = sc,
                              !.command_buffers = CommandBuffersAfterRecreate(sc),
                              !.viewport = ViewportAfterRecreate,
                              !.fences = FencesAfterRecreate,
                              !.window_resized = ResizedAfterRecreate(r),
                              !.resize_observed = FALSE]
              ELSE st
        t1 == [t0 EXCEPT !.ops = Append(t0.ops, "acquire"), !.acquire = a,
                         !.suboptimal = s, !.slot = IF a = "Ok" THEN i ELSE None]
        s2 == [s1 EXCEPT !.recreate_swapchain = StaleAfterAcquire(a, s, s1.recreate_swapchain)]
    IN
    IF a = "Other" THEN
      \* main.rs:248
      [s1 EXCEPT !.pc = "Terminated", !.exit_cause = "collaborator",
                 !.tick = [t1 EXCEPT !.end = "panicked"]]
    ELSE IF ~ProceedsAfterAcquire(a, s) THEN
      \* main.rs:244-247
      [s2 EXCEPT !.tick = [t1 EXCEPT !.end = "returned"]]
    ELSE
      IF i >= FramesInFlight THEN
        \* main.rs:256, fences[image_i] out of bounds
        [s2 EXCEPT !.pc = "Terminated", !.exit_cause = "index",
                   !.tick = [t1 EXCEPT !.end = "panicked"]]
      ELSE
        [s2 EXCEPT !.pc = "WaitingPriorWork", !.image_i = i,
                   !.tick = [t1 EXCEPT !.entry = fences[i], !.end = "running"]]

MainEventsCleared ==
  /\ Running
  /\ Len(issued) < MaxTokens
  /\ \E r \in RecreateResults, n \in ImageCounts, a \in AcquireResults, s \in BOOLEAN :
       \* inputs that are not consulted take one fixed value
       /\ (NeedsRebuild /\ r = "Ok") => swapchain.gen < MaxGen
       /\ ~NeedsRebuild => r = "Ok"
       /\ ~(NeedsRebuild /\ r = "Ok") => n = swapchain.images
       /\ r # "Ok" => a = "Ok"
       /\ ~(r = "Ok" /\ a = "Ok") => ~s
       /\ \E i \in 0 .. ((IF r = "Ok" /\ a = "Ok" THEN n ELSE 1) - 1) :
            LET o == HandlerStart(r, n, a, i, s) IN
            /\ window_resized' = o.window_resized
            /\ recreate_swapchain' = o.recreate_swapchain
            /\ swapchain' = o.swapchain
            /\ command_buffers' = o.command_buffers
            /\ viewport' = o.viewport
            /\ fences' = o.fences
            /\ resize_observed' = o.resize_observed
            /\ pc' = o.pc
            /\ exit_cause' = o.exit_cause
            /\ image_i' = o.image_i
            /\ tick' = o.tick
  /\ UNCHANGED <<previous_fence_i, window_size, control_flow, issued, signaled,
                 stop_seen>>

FenceReady_NoWait(f) == TRUE
\* main.rs:256-258, image_fence.wait(None) has returned (or there is no fence)
FenceReady(f) == f = None \/ f \in signaled

WaitsOn_PreviousSlot == fences[previous_fence_i]
\* main.rs:256, the fence the handler waits on: the one of the acquired slot
WaitsOn == fences[image_i]

PreviousFuture_AcquiredSlot == fences[image_i]
\* main.rs:260-268, the prior work the submission is ordered after
\* (None stands for sync::now, which is already complete)
PreviousFuture == fences[previous_fence_i]

\* main.rs:291
PreviousFenceAfterSubmit(i) == i

FenceAfterFlush_KeepsOld(f, t, old) == IF f = "Ok" THEN t ELSE old
FenceAfterFlush_KeepsFailed(f, t, old) == t
\* main.rs:280-289, the fence-table entry written after flush result f
FenceAfterFlush(f, t, old) == IF f = "Ok" THEN t ELSE None

StaleAfterFlush_OutOfDateDropped(f, stale) == stale
\* main.rs:282-283
StaleAfterFlush(f, stale) == IF f = "OutOfDate" THEN TRUE ELSE stale

\* main.rs:256-291: the wait on fences[image_i] has returned; submit and present
SubmitAndPresent ==
  /\ pc = "WaitingPriorWork"
  /\ FenceReady(WaitsOn)
  /\ \E f \in FlushResults :
       LET entry == fences[image_i]
           dep == PreviousFuture
           t == Len(issued) + 1
           ops1 == IF WaitsOn # None THEN Append(tick.ops, "wait") ELSE tick.ops
           t1 == [tick EXCEPT !.ops = ops1, !.waited = WaitsOn, !.dep = dep]
       IN
       IF image_i >= command_buffers.len THEN
         \* main.rs:272, command_buffers[image_i] out of bounds
         /\ pc' = "Terminated"
         /\ exit_cause' = "index"
         /\ tick' = [t1 EXCEPT !.end = "panicked"]
         /\ UNCHANGED <<fences, previous_fence_i, recreate_swapchain, issued>>
       ELSE IF f = "Other" THEN
         \* main.rs:286-288
         /\ pc' = "Terminated"
         /\ exit_cause' = "collaborator"
         /\ tick' = [t1 EXCEPT !.ops = ops1 \o <<"submit", "present">>, !.flush = f,
                               !.end = "panicked"]
         /\ UNCHANGED <<fences, previous_fence_i, recreate_swapchain, issued>>
       ELSE
         /\ fences' = [fences EXCEPT ![image_i] = FenceAfterFlush(f, t, entry)]
         /\ issued' = IF f = "Ok" THEN Append(issued, [slot |-> image_i, dep |-> dep])
                      ELSE issued
         /\ recreate_swapchain' = StaleAfterFlush(f, recreate_swapchain)
         /\ previous_fence_i' = PreviousFenceAfterSubmit(image_i)
         /\ pc' = "Idle"
         /\ exit_cause' = exit_cause
         /\ tick' = [t1 EXCEPT !.ops = ops1 \o <<"submit", "present">>, !.flush = f,
                               !.end = "returned"]
  /\ image_i' = 0
  /\ UNCHANGED <<window_resized, swapchain, command_buffers, viewport, window_size,
                 control_flow, signaled, stop_seen, resize_observed>>

\* main.rs:257, image_fence.wait(None).unwrap() fails (device lost)
FenceWaitFails ==
  /\ pc = "WaitingPriorWork"
  /\ WaitsOn # None
  /\ pc' = "Terminated"
  /\ exit_cause' = "collaborator"
  /\ tick' = [tick EXCEPT !.ops = Append(tick.ops, "wait"), !.waited = WaitsOn,
                          !.end = "panicked"]
  /\ image_i' = 0
  /\ UNCHANGED <<window_resized, recreate_swapchain, fences, previous_fence_i, swapchain,
                 command_buffers, viewport, window_size, control_flow, issued, signaled,
                 stop_seen, resize_observed>>

Next ==
  \/ CloseRequested
  \/ \E s \in Sizes : Resized(s)
  \/ MainEventsCleared
  \/ SubmitAndPresent
  \/ FenceWaitFails
  \/ LoopDestroyed
  \/ \E t \in 1 .. MaxTokens : GpuSignal(t)

Spec == Init /\ [][Next]_vars

\* The event loop polls, so MainEventsCleared keeps being delivered while the
\* loop runs; the handler goes on once its wait returns; the GPU finishes
\* every submission whose dependency has finished.
FairSpec ==
  /\ Spec
  /\ WF_vars(MainEventsCleared)
  /\ WF_vars(SubmitAndPresent)
  /\ \A t \in 1 .. MaxTokens : WF_vars(GpuSignal(t))

TypeOK ==
  /\ window_resized \in BOOLEAN
  /\ recreate_swapchain \in BOOLEAN
  /\ fences \in [Slots -> 0 .. MaxTokens]
  /\ previous_fence_i \in Slots
  /\ pc \in {"Idle", "WaitingPriorWork", "Terminated"}
  /\ control_flow \in {"Poll", "Exit"}
  /\ signaled \subseteq 1 .. Len(issued)

\* ---------------------------------------------------------------- claims
TokensOf(sl) == {t \in 1 .. Len(issued) : issued[t].slot = sl}
Pending(sl) == TokensOf(sl) \ signaled
RebuildCalls(tk) == Cardinality({k \in DOMAIN tk.ops : tk.ops[k] = "rebuild"})
Issued(tk, op) == \E k \in DOMAIN tk.ops : tk.ops[k] = op
EndsWithSubmitPresent(tk) ==
  /\ Len(tk.ops) >= 2
  /\ tk.ops[Len(tk.ops) - 1] = "submit"
  /\ tk.ops[Len(tk.ops)] = "present"
NotFatal == exit_cause \in {"none", "stop"}

C2_TerminationDrains ==
  (pc = "Terminated" /\ exit_cause = "stop") => (1 .. Len(issued)) \subseteq signaled

\* C3: InvalidSize retry.  A handler run whose rebuild fails with
\* ImageExtentNotSupported ends without acquire, submit or present and without
\* terminating, and the next run starts with a rebuild, whichever flag
\* triggered the failed one.
C3_InvalidSizeRetry ==
  /\ [](tick.rebuild = "ImageExtentNotSupported" =>
          /\ tick.ops = <<"rebuild">>
          /\ tick.end = "returned"
          /\ NotFatal)
  /\ [][(tick.rebuild = "ImageExtentNotSupported" /\ MainEventsCleared) =>
          Head(tick'.ops) = "rebuild"]_vars

\* C4: resize convergence.  A handler run that starts with an observed resize
\* not yet followed by a successful rebuild acquires only after its own
\* rebuild succeeded, and window_resized is false at every acquire.
C4_ResizeConvergence ==
  /\ []((tick.observed0 /\ tick.acquire # "none") =>
          (Head(tick.ops) = "rebuild" /\ tick.rebuild = "Ok"))
  /\ [][(tick'.acquire # "none" /\ window_resized') => ~MainEventsCleared]_vars

\* A resize was pending, the rebuild succeeded and the run went on to acquire.
C4_Witness ==
  tick.observed0 /\ tick.rebuild = "Ok" /\ tick.acquire = "Ok" /\ ~window_resized

\* C5: rebuild collapse.  A handler run makes at most one rebuild call: exactly
\* one when it starts with both flags set, none when it starts with neither.
C5_RebuildCollapse ==
  /\ RebuildCalls(tick) <= 1
  /\ (tick.resized0 /\ tick.stale0) => RebuildCalls(tick) = 1
  /\ (~tick.resized0 /\ ~tick.stale0) => RebuildCalls(tick) = 0

\* A run that started with both flags set.
C5_Witness ==
  tick.resized0 /\ tick.stale0 /\ RebuildCalls(tick) = 1 /\ tick.rebuild = "Ok"

\* C6: out-of-date acquire.  A run whose acquire reports OutOfDate waits on no
\* token, submits and presents nothing and returns without terminating the
\* loop; the next run starts with a rebuild.
C6_AcquireOutOfDate ==
  /\ [](tick.acquire = "OutOfDate" =>
          /\ ~Issued(tick, "wait") /\ ~Issued(tick, "submit") /\ ~Issued(tick, "present")
          /\ tick.end = "returned"
          /\ NotFatal)
  /\ [][(tick.acquire = "OutOfDate" /\ MainEventsCleared) =>
          Head(tick'.ops) = "rebuild"]_vars

\* An acquire reported OutOfDate and the run has returned.
C6_Witness ==
  tick.acquire = "OutOfDate" /\ tick.end = "returned" /\ pc = "Idle"

\* C7: suboptimal acquire.  A run whose acquire succeeds with suboptimal = true
\* and that is not cut short by a fatal error waits on the prior token of the
\* acquired slot (when there is one), then submits and presents; the flag it
\* sets stays set until the next run, which starts with a rebuild.
C7_SuboptimalAcquire ==
  /\ []((tick.suboptimal /\ tick.end = "returned") =>
          /\ tick.acquire = "Ok"
          /\ tick.waited = tick.entry
          /\ Issued(tick, "wait") <=> tick.entry # None
          /\ EndsWithSubmitPresent(tick)
          /\ tick.flush \in {"Ok", "OutOfDate"})
  /\ []((tick.suboptimal /\ tick.end \in {"running", "returned"}) => recreate_swapchain)
  /\ [][(tick.suboptimal /\ tick.end = "returned" /\ MainEventsCleared) =>
          Head(tick'.ops) = "rebuild"]_vars

\* A suboptimal acquire of a slot with a prior token, waited on and submitted.
C7_Witness ==
  /\ tick.suboptimal /\ tick.end = "returned" /\ tick.flush = "Ok"
  /\ tick.entry # None /\ Issued(tick, "wait")

\* C8: out-of-date present.  A run whose submit/present step reports OutOfDate
\* returns without terminating the loop and leaves recreate_swapchain set; the
\* next run starts with a rebuild.
C8_PresentOutOfDate ==
  /\ [](tick.flush = "OutOfDate" =>
          /\ tick.end = "returned"
          /\ NotFatal
          /\ recreate_swapchain)
  /\ [][(tick.flush = "OutOfDate" /\ MainEventsCleared) =>
          Head(tick'.ops) = "rebuild"]_vars

\* The flush reported OutOfDate on an acquire that was not suboptimal.
C8_Witness ==
  tick.flush = "OutOfDate" /\ ~tick.suboptimal /\ pc = "Idle"

C10_TerminatedOnlyByStopOrFatal ==
  pc = "Terminated" => exit_cause \in {"stop", "collaborator"}

LastOp(tk) == IF tk.ops = <<>> THEN "none" ELSE tk.ops[Len(tk.ops)]
FatalHere(tk) == tk.end = "panicked" /\ pc = "Terminated" /\ exit_cause = "collaborator"

\* C11: fatal errors.  A recreate error other than ImageExtentNotSupported, an
\* acquire error other than OutOfDate, a flush error other than OutOfDate and a
\* failed fence wait each end the run and the loop at that call, and nothing
\* but GPU completion happens after the loop has terminated.
C11_FatalErrors ==
  /\ [](tick.rebuild = "Other" => (FatalHere(tick) /\ tick.ops = <<"rebuild">>))
  /\ [](tick.acquire = "Other" => (FatalHere(tick) /\ LastOp(tick) = "acquire"))
  /\ [](tick.flush = "Other" => (FatalHere(tick) /\ LastOp(tick) = "present"))
  /\ []((tick.end = "panicked" /\ LastOp(tick) = "wait" /\ exit_cause = "collaborator") =>
          (pc = "Terminated" /\ ~Issued(tick, "submit")))
  /\ [][pc = "Terminated" =>
          /\ pc' = "Terminated" /\ exit_cause' = exit_cause /\ tick' = tick
          /\ fences' = fences /\ issued' = issued /\ swapchain' = swapchain
          /\ recreate_swapchain' = recreate_swapchain /\ window_resized' = window_resized]_vars

\* The loop has ended on a failed fence wait.
C11_Witness ==
  tick.end = "panicked" /\ LastOp(tick) = "wait" /\ exit_cause = "collaborator"

Precedes(tk, a, b) ==
  \E j, k \in DOMAIN tk.ops : j < k /\ tk.ops[j] = a /\ tk.ops[k] = b
OpCount(tk, op) == Cardinality({k \in DOMAIN tk.ops : tk.ops[k] = op})

\* C12: wait before reuse.  A run that reaches submission has waited on the
\* fence-table entry of the acquired slot when that entry held a token (the
\* token has signaled and the wait came before the submit) and has not waited
\* when it was empty; of two tokens of one slot the earlier has signaled.
C12_WaitBeforeReuse ==
  /\ Issued(tick, "submit") =>
       /\ tick.waited = tick.entry
       /\ tick.entry # None => (tick.entry \in signaled /\ Precedes(tick, "wait", "submit"))
       /\ tick.entry = None => ~Issued(tick, "wait")
  /\ \A t1, t2 \in 1 .. Len(issued) :
       (t1 < t2 /\ issued[t1].slot = issued[t2].slot) => t1 \in signaled

\* A run that waited on the acquired slot's token and went on to submit.
C12_Witness ==
  /\ Issued(tick, "submit") /\ ~tick.suboptimal
  /\ tick.entry # None /\ Precedes(tick, "wait", "submit")

C14_CurrentRenderResources ==
  Issued(tick, "submit") => command_buffers.gen = swapchain.gen

\* C15: previous-slot dependency.  The prior work a submission is ordered
\* after is fences[previous_fence_i] as it stands before the submission (None
\* is the already-complete dependency); previous_fence_i starts at 0, changes
\* only when a run has issued its submission and returned, and is then the
\* slot of that run.
C15_PreviousSlotDependency ==
  /\ [](tick = NoTick => previous_fence_i = 0)
  /\ [][(pc = "WaitingPriorWork" /\ Issued(tick', "submit")) =>
          /\ tick'.dep = fences[previous_fence_i]
          /\ Len(issued') > Len(issued) => issued'[Len(issued')].dep = tick'.dep]_vars
  /\ [][(pc = "WaitingPriorWork" /\ tick'.end = "returned") =>
          previous_fence_i' = tick'.slot]_vars
  /\ [][previous_fence_i' # previous_fence_i =>
          (pc = "WaitingPriorWork" /\ Issued(tick', "submit") /\ tick'.end = "returned")]_vars

\* The dependency is the previous slot's token, not the acquired slot's entry.
C15_Witness ==
  tick.flush = "Ok" /\ tick.dep # None /\ tick.dep # tick.entry /\ tick.slot # issued[tick.dep].slot

\* C16: single blocking point.  The handler is blocked only while the token of
\* the acquired slot is unsignaled: it waits at most once, on that token, after
\* the acquire, never on the previous slot's token and never in a run that
\* ends before submission.
C16_SingleBlockingPoint ==
  /\ (pc = "WaitingPriorWork" /\ (fences[image_i] = None \/ fences[image_i] \in signaled))
       => ENABLED SubmitAndPresent
  /\ tick.waited \in {None, tick.entry}
  /\ OpCount(tick, "wait") <= 1
  /\ Issued(tick, "wait") => Precedes(tick, "acquire", "wait")
  /\ pc = "WaitingPriorWork" => LastOp(tick) = "acquire"
  /\ (tick.end = "returned" /\ ~Issued(tick, "submit")) =>
       (~Issued(tick, "wait") /\ tick.waited = None)

\* The handler can go on although the previous slot's token is still pending.
C16_Witness ==
  /\ pc = "WaitingPriorWork" /\ previous_fence_i # image_i
  /\ fences[previous_fence_i] # None /\ fences[previous_fence_i] \notin signaled
  /\ ENABLED SubmitAndPresent

C18_SlotIndexValid ==
  tick.acquire = "Ok" => (tick.slot \in DOMAIN fences /\ tick.slot < command_buffers.len)

BookkeepingUnchanged ==
  /\ fences' = fences
  /\ previous_fence_i' = previous_fence_i
  /\ issued' = issued
  /\ signaled' = signaled
RenderStateUnchanged ==
  /\ swapchain' = swapchain
  /\ command_buffers' = command_buffers
  /\ viewport' = viewport

\* C19: a rebuild leaves the token bookkeeping untouched.  The first step of a
\* run that attempts a rebuild changes neither the fence table nor
\* previous_fence_i and waits on nothing; after a successful rebuild the entry
\* of the acquired slot is still the token issued for that slot before, and it
\* is the one the run waits on.
C19_RebuildKeepsTokens ==
  /\ [][(pc = "Idle" /\ Issued(tick', "rebuild") /\ MainEventsCleared) =>
          (BookkeepingUnchanged /\ ~Issued(tick', "wait"))]_vars
  /\ []((tick.rebuild = "Ok" /\ pc = "WaitingPriorWork") =>
          /\ tick.entry = fences[tick.slot]
          /\ tick.entry # None => issued[tick.entry].slot = tick.slot)
  /\ []((tick.rebuild = "Ok" /\ Issued(tick, "submit")) => tick.waited = tick.entry)

\* After a successful rebuild the run waited on a token issued before it.
C19_Witness ==
  /\ tick.rebuild = "Ok" /\ Issued(tick, "submit")
  /\ tick.entry # None /\ tick.waited = tick.entry /\ Issued(tick, "wait")

\* C20 as stated: a run whose acquire reports OutOfDate changes only
\* recreate_swapchain, and a run whose rebuild fails with
\* ImageExtentNotSupported changes only recreate_swapchain (cleared) and keeps
\* window_resized; fences, previous_fence_i, swapchain, command buffers and
\* viewport are unchanged in both.
C20_EarlyExitChangesOnlyStale ==
  /\ [][(pc = "Idle" /\ tick'.acquire = "OutOfDate" /\ MainEventsCleared) =>
          /\ BookkeepingUnchanged /\ RenderStateUnchanged
          /\ window_resized' = window_resized
          /\ recreate_swapchain']_vars
  /\ [][(pc = "Idle" /\ tick'.rebuild = "ImageExtentNotSupported" /\ MainEventsCleared) =>
          /\ BookkeepingUnchanged /\ RenderStateUnchanged
          /\ window_resized' = window_resized
          /\ ~recreate_swapchain']_vars

\* C20, amended: the same, for an OutOfDate acquire only when the run made no
\* rebuild before it; fences and previous_fence_i are unchanged in every
\* early-exit run.
C20_EarlyExitFrame ==
  /\ [][(pc = "Idle" /\ tick'.acquire = "OutOfDate" /\ MainEventsCleared) =>
          /\ BookkeepingUnchanged
          /\ recreate_swapchain'
          /\ tick'.rebuild = "none" =>
               (RenderStateUnchanged /\ window_resized' = window_resized)]_vars
  /\ [][(pc = "Idle" /\ tick'.rebuild = "ImageExtentNotSupported" /\ MainEventsCleared) =>
          /\ BookkeepingUnchanged /\ RenderStateUnchanged
          /\ window_resized' = window_resized
          /\ ~recreate_swapchain']_vars

\* A failed rebuild with the resize still pending and the stale flag cleared.
C20_Witness ==
  /\ tick.rebuild = "ImageExtentNotSupported" /\ tick.resized0 /\ tick.stale0
  /\ window_resized /\ ~recreate_swapchain /\ pc = "Idle"

====
